---- MODULE Spec2Model ----
(***************************************************************************)
(* Model of eth-receipt-merkle-verifier (src/src/main.rs).                 *)
(*                                                                         *)
(* A 32-byte H256 value is modelled as a finite sequence of naturals, the  *)
(* symbolic spelling of the digest: a raw value is <<n>> with n >= 1, and   *)
(* the Keccak-256 digest of a byte string made of k 32-byte words          *)
(* w1 .. wk is <<0, k>> \o w1 \o ... \o wk.  The spelling is prefix-free,  *)
(* so two values are equal exactly when they are the same raw value or the *)
(* digests of the same byte string (Keccak-256 as an ideal hash: no        *)
(* collisions, no digest inside its own preimage), and the byte-wise       *)
(* lexicographic order of H256 is the lexicographic order of spellings.    *)
(*                                                                         *)
(* Texts (command-line arguments) are sequences of symbols: "h1", "h2"     *)
(* each stand for a block of 64 hex digits, "0x" for the prefix, "z" for a *)
(* character that is not a hex digit, "," and " " for themselves.          *)
(***************************************************************************)
EXTENDS Integers, Sequences, FiniteSets, TLC

VARIABLES
    args,             \* Args: [rpc_url, tx_hash, proof] as given on the command line
    env_rpc_url,      \* value of ETH_RPC_URL: "none", "bad" or "ok"
    pc,               \* position of main / verify_receipt_proof / verify_merkle_proof
    rpc_url,          \* resolved RPC URL ("none" until resolved)
    tx_hash,          \* parsed transaction hash (<<>> until parsed)
    proof,            \* parsed proof: sequence of H256
    receipts_root,    \* root handed to verify_merkle_proof (<<>> until fetched)
    receipt_data,     \* placeholder hash of the receipt (<<>> until hashed)
    leaf,             \* receipt_hash, the leaf handed to verify_merkle_proof
    current,          \* running value of verify_merkle_proof
    idx,              \* number of siblings consumed by the loop
    trace,            \* "Proof step" log lines emitted by the loop
    is_valid,         \* "unset", "true" or "false"
    error,            \* "none" or the kind of the error main returned
    exit_code,        \* -1 while running, 0 for Ok(()), 1 for Err
    block_fetches,    \* number of get_block requests issued
    receipt_fetches,  \* number of get_transaction_receipt requests issued
    verify_calls,     \* number of invocations of verify_merkle_proof
    hash_calls,       \* number of Keccak256 digests computed by the loop
    block_resp,       \* answer to get_block: "unset", "error", "none" or "ok"
    receipt_resp      \* answer to get_transaction_receipt, likewise

vars == <<args, env_rpc_url, pc, rpc_url, tx_hash, proof, receipts_root,
          receipt_data, leaf, current, idx, trace, is_valid, error, exit_code,
          block_fetches, receipt_fetches, verify_calls, hash_calls,
          block_resp, receipt_resp>>

----------------------------------------------------------------------------
(* Bounds *)

MaxProofLen == 4
MaxTextLen == 4

----------------------------------------------------------------------------
(* Sequences of at most n elements of S *)

SeqUpTo(S, n) == UNION {[1..k -> S] : k \in 0..n}

Reverse(s) == [k \in 1..Len(s) |-> s[Len(s) + 1 - k]]

----------------------------------------------------------------------------
(* H256 values, their order and Keccak-256 *)

RECURSIVE Concat(_)
Concat(words) ==
    IF words = <<>> THEN <<>> ELSE Head(words) \o Concat(Tail(words))

\* a slip: only the first 32 bytes of the buffer are hashed
Keccak256FirstWord(words) == <<0, 1>> \o Head(words)

\* Keccak256::digest over the byte string made of the given 32-byte words
Keccak256(words) == <<0, Len(words)>> \o Concat(words)

\* `<` of H256: byte-wise lexicographic comparison
RECURSIVE LexLess(_, _)
LexLess(a, b) ==
    IF b = <<>> THEN FALSE
    ELSE IF a = <<>> THEN TRUE
    ELSE IF Head(a) < Head(b) THEN TRUE
    ELSE IF Head(a) > Head(b) THEN FALSE
    ELSE LexLess(Tail(a), Tail(b))

\* a slip: `>` in place of `<`, so the larger value is put first
CombineStepMaxFirst(cur, sibling) ==
    LET combined == IF LexLess(sibling, cur)
                    THEN <<cur, sibling>>
                    ELSE <<sibling, cur>>
    IN  Keccak256(combined)

\* a slip: no comparison, the running value always first
CombineStepNoSort(cur, sibling) == Keccak256(<<cur, sibling>>)

\* a slip: the else branch appends the sibling twice
CombineStepElseDup(cur, sibling) ==
    LET combined == IF LexLess(cur, sibling)
                    THEN <<cur, sibling>>
                    ELSE <<sibling, sibling>>
    IN  Keccak256(combined)

\* body of the loop of verify_merkle_proof: the next running value
CombineStep(cur, sibling) ==
    LET combined == IF LexLess(cur, sibling)
                    THEN <<cur, sibling>>
                    ELSE <<sibling, cur>>
    IN  Keccak256(combined)

\* the loop of verify_merkle_proof run to its end
RECURSIVE FoldProof(_, _)
FoldProof(cur, p) ==
    IF p = <<>> THEN cur ELSE FoldProof(CombineStep(cur, Head(p)), Tail(p))

verify_merkle_proof(l, p, r) == FoldProof(l, p) = r

----------------------------------------------------------------------------
(* Texts and the parsing of hash literals *)

HexBlocks == {"h1", "h2"}
Symbols == HexBlocks \cup {"0x", "z", ",", " "}

\* the 32 bytes a block of 64 hex digits spells
HexValue(sym) == IF sym = "h1" THEN <<1>> ELSE <<2>>

\* str::split(','): the pieces between commas, empty pieces kept
RECURSIVE SplitComma(_)
SplitComma(text) ==
    IF text = <<>> THEN << <<>> >>
    ELSE LET rest == SplitComma(Tail(text))
         IN  IF Head(text) = ","
             THEN << <<>> >> \o rest
             ELSE << <<Head(text)>> \o Head(rest) >> \o Tail(rest)

RECURSIVE TrimStart(_)
TrimStart(tok) ==
    IF tok # <<>> /\ Head(tok) = " " THEN TrimStart(Tail(tok)) ELSE tok

\* str::trim: leading and trailing white space removed
Trim(tok) == Reverse(TrimStart(Reverse(TrimStart(tok))))

\* H256::from_str: an optional "0x", then exactly 64 hex digits
H256FromStr(tok) ==
    LET digits == IF tok # <<>> /\ Head(tok) = "0x" THEN Tail(tok) ELSE tok
    IN  IF Len(digits) = 1 /\ digits[1] \in HexBlocks
        THEN [ok |-> TRUE, value |-> HexValue(digits[1])]
        ELSE [ok |-> FALSE, value |-> <<>>]

\* a slip: tokens that fail to parse are dropped (filter_map(.. .ok()))
ParseProofSkipBad(text) ==
    LET tokens == SplitComma(text)
        parsed == [k \in 1..Len(tokens) |-> H256FromStr(Trim(tokens[k]))]
        good == SelectSeq(parsed, LAMBDA r : r.ok)
    IN  [ok |-> TRUE, value |-> [k \in 1..Len(good) |-> good[k].value]]

\* a slip: empty tokens are filtered out before parsing
ParseProofSkipEmpty(text) ==
    LET tokens == SelectSeq(SplitComma(text), LAMBDA t : Trim(t) # <<>>)
        parsed == [k \in 1..Len(tokens) |-> H256FromStr(Trim(tokens[k]))]
    IN  IF \A k \in 1..Len(tokens) : parsed[k].ok
        THEN [ok |-> TRUE, value |-> [k \in 1..Len(tokens) |-> parsed[k].value]]
        ELSE [ok |-> FALSE, value |-> <<>>]

\* args.proof.split(',').map(|s| H256::from_str(s.trim())).collect::<Result<Vec<_>, _>>()
ParseProof(text) ==
    LET tokens == SplitComma(text)
        parsed == [k \in 1..Len(tokens) |-> H256FromStr(Trim(tokens[k]))]
    IN  IF \A k \in 1..Len(tokens) : parsed[k].ok
        THEN [ok |-> TRUE, value |-> [k \in 1..Len(tokens) |-> parsed[k].value]]
        ELSE [ok |-> FALSE, value |-> <<>>]

\* args.rpc_url.or_else(|| std::env::var("ETH_RPC_URL").ok())
ResolveRpcUrl(arg, env) == IF arg # "none" THEN arg ELSE env

----------------------------------------------------------------------------
(* The inputs the model draws *)

\* H256 values given to verify_merkle_proof directly: two raw values, and as
\* leaf or sibling also the digest of their pair
RawHashes == {<<1>>, <<2>>}
SampleSiblings == RawHashes \cup {Keccak256(<<<<1>>, <<2>>>>)}

\* receipt.to_string() of the receipts the node may return
ReceiptStrings == {<<7>>, <<8>>}

\* the placeholder hash get_receipt returns, and the leaf made of it
ReceiptData(r) == Keccak256(<<r>>)
ReceiptHash(data) == Keccak256(<<data>>)

\* every node value reachable from cur through a prefix of p, the pair of each
\* step concatenated in either order: the roots a block may publish
RECURSIVE PathRoots(_, _)
PathRoots(cur, p) ==
    {cur} \cup
    IF p = <<>> THEN {}
    ELSE PathRoots(Keccak256(<<cur, Head(p)>>), Tail(p))
         \cup PathRoots(Keccak256(<<Head(p), cur>>), Tail(p))

BlockRoots(p) ==
    RawHashes \cup
    UNION {PathRoots(ReceiptHash(ReceiptData(r)), p) : r \in ReceiptStrings}

ProofTexts == SeqUpTo(Symbols, MaxTextLen)
TxHashTexts == {<<"h1">>, <<"z">>}

----------------------------------------------------------------------------
(* main, up to the call of verify_receipt_proof *)

BoolStr(b) == IF b THEN "true" ELSE "false"

\* the state in which nothing has been resolved, parsed, fetched or verified
Blank ==
    /\ rpc_url = "none"
    /\ tx_hash = <<>>
    /\ proof = <<>>
    /\ receipts_root = <<>>
    /\ receipt_data = <<>>
    /\ leaf = <<>>
    /\ current = <<>>
    /\ idx = 0
    /\ trace = <<>>
    /\ is_valid = "unset"
    /\ error = "none"
    /\ exit_code = -1
    /\ block_fetches = 0
    /\ receipt_fetches = 0
    /\ verify_calls = 0
    /\ hash_calls = 0
    /\ block_resp = "unset"
    /\ receipt_resp = "unset"

\* the process after Args::parse()
Init ==
    /\ args \in [rpc_url : {"none", "bad", "ok"},
                 tx_hash : TxHashTexts,
                 proof : ProofTexts]
    /\ env_rpc_url \in {"none", "bad", "ok"}
    /\ pc = "resolve_rpc"
    /\ Blank

\* return Err(..) from main: the process exits with a non-zero code
Fail(msg) ==
    /\ error' = msg
    /\ exit_code' = 1
    /\ pc' = "exit"

\* let rpc_url = args.rpc_url.or_else(env).ok_or_else(..)?
ResolveRpc ==
    /\ pc = "resolve_rpc"
    /\ LET url == ResolveRpcUrl(args.rpc_url, env_rpc_url)
       IN  IF url = "none"
           THEN Fail("RPC URL must be provided") /\ UNCHANGED rpc_url
           ELSE /\ rpc_url' = url
                /\ pc' = "new_verifier"
                /\ UNCHANGED <<error, exit_code>>
    /\ UNCHANGED <<args, env_rpc_url, tx_hash, proof, receipts_root,
                   receipt_data, leaf, current, idx, trace, is_valid,
                   block_fetches, receipt_fetches, verify_calls, hash_calls,
                   block_resp, receipt_resp>>

\* MerkleVerifier::new(&rpc_url)?: the URL is parsed, nothing is sent
NewVerifier ==
    /\ pc = "new_verifier"
    /\ IF rpc_url = "bad"
       THEN Fail("invalid RPC URL")
       ELSE pc' = "parse_tx_hash" /\ UNCHANGED <<error, exit_code>>
    /\ UNCHANGED <<args, env_rpc_url, rpc_url, tx_hash, proof, receipts_root,
                   receipt_data, leaf, current, idx, trace, is_valid,
                   block_fetches, receipt_fetches, verify_calls, hash_calls,
                   block_resp, receipt_resp>>

\* let tx_hash = match H256::from_str(&args.tx_hash) { .. }
ParseTxHash ==
    /\ pc = "parse_tx_hash"
    /\ LET r == H256FromStr(args.tx_hash)
       IN  IF r.ok
           THEN /\ tx_hash' = r.value
                /\ pc' = "parse_proof"
                /\ UNCHANGED <<error, exit_code>>
           ELSE Fail("Invalid transaction hash") /\ UNCHANGED tx_hash
    /\ UNCHANGED <<args, env_rpc_url, rpc_url, proof, receipts_root,
                   receipt_data, leaf, current, idx, trace, is_valid,
                   block_fetches, receipt_fetches, verify_calls, hash_calls,
                   block_resp, receipt_resp>>

\* let proof: Vec<H256> = match args.proof.split(',') ... { .. }
ParseProofArg ==
    /\ pc = "parse_proof"
    /\ LET r == ParseProof(args.proof)
       IN  IF r.ok
           THEN /\ proof' = r.value
                /\ pc' = "get_block"
                /\ UNCHANGED <<error, exit_code>>
           ELSE Fail("Invalid proof format") /\ UNCHANGED proof
    /\ UNCHANGED <<args, env_rpc_url, rpc_url, tx_hash, receipts_root,
                   receipt_data, leaf, current, idx, trace, is_valid,
                   block_fetches, receipt_fetches, verify_calls, hash_calls,
                   block_resp, receipt_resp>>

----------------------------------------------------------------------------
(* verify_receipt_proof *)

\* self.get_block_receipts_root(block_number).await?
GetBlockReceiptsRoot ==
    /\ pc = "get_block"
    /\ block_fetches' = block_fetches + 1
    /\ \/ Fail("network error") /\ block_resp' = "error"
          /\ UNCHANGED receipts_root
       \/ Fail("Block not found") /\ block_resp' = "none"
          /\ UNCHANGED receipts_root
       \/ \E root \in BlockRoots(proof) :
             /\ block_resp' = "ok"
             /\ receipts_root' = root
             /\ pc' = "get_receipt"
             /\ UNCHANGED <<error, exit_code>>
    /\ UNCHANGED <<args, env_rpc_url, rpc_url, tx_hash, proof,
                   receipt_data, leaf, current, idx, trace, is_valid,
                   receipt_fetches, verify_calls, hash_calls, receipt_resp>>

\* a slip: a missing receipt is replaced by a default one (unwrap_or_default)
GetReceiptUnwrapOrDefault ==
    /\ pc = "get_receipt"
    /\ receipt_fetches' = receipt_fetches + 1
    /\ \/ Fail("network error") /\ receipt_resp' = "error"
          /\ UNCHANGED receipt_data
       \/ /\ receipt_resp' = "none"
          /\ receipt_data' = ReceiptData(<<>>)
          /\ pc' = "call_verify"
          /\ UNCHANGED <<error, exit_code>>
       \/ \E receipt \in ReceiptStrings :
             /\ receipt_resp' = "ok"
             /\ receipt_data' = ReceiptData(receipt)
             /\ pc' = "call_verify"
             /\ UNCHANGED <<error, exit_code>>
    /\ UNCHANGED <<args, env_rpc_url, rpc_url, tx_hash, proof, receipts_root,
                   leaf, current, idx, trace, is_valid,
                   block_fetches, verify_calls, hash_calls, block_resp>>

\* self.get_receipt(tx_hash).await?
GetReceipt ==
    /\ pc = "get_receipt"
    /\ receipt_fetches' = receipt_fetches + 1
    /\ \/ Fail("network error") /\ receipt_resp' = "error"
          /\ UNCHANGED receipt_data
       \/ Fail("Transaction receipt not found") /\ receipt_resp' = "none"
          /\ UNCHANGED receipt_data
       \/ \E receipt \in ReceiptStrings :
             /\ receipt_resp' = "ok"
             /\ receipt_data' = ReceiptData(receipt)
             /\ pc' = "call_verify"
             /\ UNCHANGED <<error, exit_code>>
    /\ UNCHANGED <<args, env_rpc_url, rpc_url, tx_hash, proof, receipts_root,
                   leaf, current, idx, trace, is_valid,
                   block_fetches, verify_calls, hash_calls, block_resp>>

\* receipt_hash = H256::from_slice(&Keccak256::digest(&receipt_data)), then the
\* call self.verify_merkle_proof(receipt_hash, proof.clone(), receipts_root)
CallVerify ==
    /\ pc = "call_verify"
    /\ leaf' = ReceiptHash(receipt_data)
    /\ current' = leaf'
    /\ idx' = 0
    /\ verify_calls' = verify_calls + 1
    /\ pc' = "loop"
    /\ UNCHANGED <<args, env_rpc_url, rpc_url, tx_hash, proof, receipts_root,
                   receipt_data, trace, is_valid, error, exit_code,
                   block_fetches, receipt_fetches, hash_calls,
                   block_resp, receipt_resp>>

----------------------------------------------------------------------------
(* verify_merkle_proof *)

\* a slip: the step is logged before current is updated
VerifyStepLogBefore ==
    /\ pc = "loop"
    /\ idx < Len(proof)
    /\ current' = CombineStep(current, proof[idx + 1])
    /\ hash_calls' = hash_calls + 1
    /\ trace' = Append(trace, [step |-> idx + 1, hash |-> current])
    /\ idx' = idx + 1
    /\ UNCHANGED <<args, env_rpc_url, pc, rpc_url, tx_hash, proof,
                   receipts_root, receipt_data, leaf, is_valid, error,
                   exit_code, block_fetches, receipt_fetches, verify_calls,
                   block_resp, receipt_resp>>

\* one iteration of the loop: combine, hash, log
VerifyStep ==
    /\ pc = "loop"
    /\ idx < Len(proof)
    /\ current' = CombineStep(current, proof[idx + 1])
    /\ hash_calls' = hash_calls + 1
    /\ trace' = Append(trace, [step |-> idx + 1, hash |-> current'])
    /\ idx' = idx + 1
    /\ UNCHANGED <<args, env_rpc_url, pc, rpc_url, tx_hash, proof,
                   receipts_root, receipt_data, leaf, is_valid, error,
                   exit_code, block_fetches, receipt_fetches, verify_calls,
                   block_resp, receipt_resp>>

\* a slip: an empty proof is rejected out of hand
VerifyReturnRejectEmpty ==
    /\ pc = "loop"
    /\ idx = Len(proof)
    /\ is_valid' = BoolStr(proof # <<>> /\ current = receipts_root)
    /\ pc' = "report"
    /\ UNCHANGED <<args, env_rpc_url, rpc_url, tx_hash, proof, receipts_root,
                   receipt_data, leaf, current, idx, trace, error, exit_code,
                   block_fetches, receipt_fetches, verify_calls, hash_calls,
                   block_resp, receipt_resp>>

\* the loop is over: current == root
VerifyReturn ==
    /\ pc = "loop"
    /\ idx = Len(proof)
    /\ is_valid' = BoolStr(current = receipts_root)
    /\ pc' = "report"
    /\ UNCHANGED <<args, env_rpc_url, rpc_url, tx_hash, proof, receipts_root,
                   receipt_data, leaf, current, idx, trace, error, exit_code,
                   block_fetches, receipt_fetches, verify_calls, hash_calls,
                   block_resp, receipt_resp>>

----------------------------------------------------------------------------
(* main, after verify_receipt_proof returned Ok(is_valid) *)

\* a slip: Ok(false) is turned into an error
ReportFailureAsError ==
    /\ pc = "report"
    /\ IF is_valid = "false"
       THEN Fail("verification failed")
       ELSE exit_code' = 0 /\ pc' = "exit" /\ UNCHANGED error
    /\ UNCHANGED <<args, env_rpc_url, rpc_url, tx_hash, proof, receipts_root,
                   receipt_data, leaf, current, idx, trace, is_valid,
                   block_fetches, receipt_fetches, verify_calls, hash_calls,
                   block_resp, receipt_resp>>

\* Ok(true) and Ok(false) are both logged, then main returns Ok(())
Report ==
    /\ pc = "report"
    /\ exit_code' = 0
    /\ pc' = "exit"
    /\ UNCHANGED <<args, env_rpc_url, rpc_url, tx_hash, proof, receipts_root,
                   receipt_data, leaf, current, idx, trace, is_valid, error,
                   block_fetches, receipt_fetches, verify_calls, hash_calls,
                   block_resp, receipt_resp>>

Next ==
    \/ ResolveRpc
    \/ NewVerifier
    \/ ParseTxHash
    \/ ParseProofArg
    \/ GetBlockReceiptsRoot
    \/ GetReceipt
    \/ CallVerify
    \/ VerifyStep
    \/ VerifyReturn
    \/ Report

Spec == Init /\ [][Next]_vars

----------------------------------------------------------------------------
(* verify_merkle_proof called on arbitrary arguments *)

SampleProofs == SeqUpTo(SampleSiblings, MaxProofLen)

\* the entry of verify_merkle_proof(leaf, proof, root): current = leaf
VerifyInit ==
    /\ args = [rpc_url |-> "ok", tx_hash |-> <<"h1">>, proof |-> <<>>]
    /\ env_rpc_url = "none"
    /\ rpc_url = "ok"
    /\ tx_hash = <<1>>
    /\ leaf \in SampleSiblings
    /\ proof \in SampleProofs
    /\ receipts_root \in RawHashes \cup PathRoots(leaf, proof)
    /\ receipt_data = <<>>
    /\ current = leaf
    /\ idx = 0
    /\ trace = <<>>
    /\ is_valid = "unset"
    /\ error = "none"
    /\ exit_code = -1
    /\ block_fetches = 1
    /\ receipt_fetches = 1
    /\ verify_calls = 1
    /\ hash_calls = 0
    /\ block_resp = "ok"
    /\ receipt_resp = "ok"
    /\ pc = "loop"

VerifyNext == VerifyStep \/ VerifyReturn

VerifySpec == VerifyInit /\ [][VerifyNext]_vars

----------------------------------------------------------------------------
(* Reference definitions used by the properties *)

MinHash(a, b) == IF LexLess(b, a) THEN b ELSE a
MaxHash(a, b) == IF LexLess(b, a) THEN a ELSE b

\* the parent of two nodes under the sorted-pair rule
SortedPairParent(a, b) == Keccak256(<<MinHash(a, b), MaxHash(a, b)>>)

\* the root built bottom-up from leaf l along the siblings p
RECURSIVE ReferenceFold(_, _)
ReferenceFold(l, p) ==
    IF p = <<>> THEN l
    ELSE SortedPairParent(ReferenceFold(l, SubSeq(p, 1, Len(p) - 1)), p[Len(p)])

Returned == pc = "report"

\* values put in the place of a leaf, a sibling or a root
Replacements == SampleSiblings \cup {<<3>>}

ReplaceAt(p, k, v) == [p EXCEPT ![k] = v]

DistinctSiblings(p) == {p[k] : k \in 1..Len(p)}

----------------------------------------------------------------------------
(* Properties of verify_merkle_proof, checked under VerifySpec *)

\* C1: verify_merkle_proof computes the reference fold: after idx siblings the
\* running value is the sorted-pair fold of the leaf with the first idx
\* siblings, and the value returned is whether the full fold equals the root.
C1_VerifyIsReferenceFold ==
    /\ current = ReferenceFold(leaf, SubSeq(proof, 1, idx))
    /\ Returned =>
          is_valid = BoolStr(ReferenceFold(leaf, proof) = receipts_root)

\* C1 witness: a proof of two siblings, the second equal to the running value,
\* was accepted.
C1_Witness ==
    /\ Returned
    /\ is_valid = "true"
    /\ Len(proof) = 2
    /\ proof[2] = ReferenceFold(leaf, SubSeq(proof, 1, 1))

\* C2: with an empty proof no hash is computed and the result is true exactly
\* when the leaf equals the root.
C2_EmptyProof ==
    (Returned /\ proof = <<>>) =>
        /\ hash_calls = 0
        /\ is_valid = BoolStr(leaf = receipts_root)

\* C2 witness: an empty proof was accepted.
C2_Witness == Returned /\ proof = <<>> /\ is_valid = "true"

\* C3: a root built honestly, bottom-up with the sorted-pair rule from the leaf
\* along the siblings of the proof, is accepted.
C3_HonestRootAccepted ==
    (Returned /\ receipts_root = ReferenceFold(leaf, proof)) =>
        is_valid = "true"

\* C3 witness: an honest root over three siblings was submitted and the call
\* returned.
C3_Witness ==
    /\ Returned
    /\ Len(proof) = 3
    /\ receipts_root = ReferenceFold(leaf, proof)

\* C4: once a proof is accepted, replacing the leaf, one sibling or the root
\* by a different value makes verify_merkle_proof return false.
C4_SingleReplacementRejected ==
    (Returned /\ is_valid = "true") =>
        /\ \A l \in Replacements \ {leaf} :
              ~verify_merkle_proof(l, proof, receipts_root)
        /\ \A k \in 1..Len(proof) : \A s \in Replacements \ {proof[k]} :
              ~verify_merkle_proof(leaf, ReplaceAt(proof, k, s), receipts_root)
        /\ \A r \in (Replacements \cup PathRoots(leaf, proof)) \ {receipts_root} :
              ~verify_merkle_proof(leaf, proof, r)

\* C4 witness: a proof of three siblings was accepted.
C4_Witness == Returned /\ is_valid = "true" /\ Len(proof) = 3

\* C5 as stated: an accepted proof with at least two distinct siblings is
\* rejected when its siblings are given in reverse order.
C5_ReversedRejected ==
    (Returned /\ is_valid = "true" /\ Cardinality(DistinctSiblings(proof)) >= 2) =>
        ~verify_merkle_proof(leaf, Reverse(proof), receipts_root)

\* C5 as amended: an accepted proof that differs from its own reversal is
\* rejected when its siblings are given in reverse order.
C5_ReversedRejectedUnlessPalindrome ==
    (Returned /\ is_valid = "true" /\ Reverse(proof) # proof) =>
        ~verify_merkle_proof(leaf, Reverse(proof), receipts_root)

\* C5 witness: an accepted proof of three siblings that is not a palindrome.
C5_Witness ==
    /\ Returned
    /\ is_valid = "true"
    /\ Len(proof) = 3
    /\ Reverse(proof) # proof

\* C10: the trace has one entry per sibling consumed, numbered in proof order,
\* entry k being the running value after the k-th sibling; on return it has one
\* entry per sibling, the last being the value compared with the root, and it
\* is empty for an empty proof.
C10_TracePerSibling ==
    /\ Len(trace) = idx
    /\ \A k \in 1..Len(trace) :
          /\ trace[k].step = k
          /\ trace[k].hash = FoldProof(leaf, SubSeq(proof, 1, k))
    /\ Returned =>
          /\ Len(trace) = Len(proof)
          /\ proof # <<>> => trace[Len(trace)].hash = current
          /\ proof = <<>> => trace = <<>>

\* C10 witness: a call over three siblings returned with its trace.
C10_Witness == Returned /\ Len(trace) = 3

----------------------------------------------------------------------------
(* Properties of the run of main, checked under Spec *)

\* the error kinds of the taxonomy, by the message main returns
ConfigErrors == {"RPC URL must be provided", "invalid RPC URL"}
MalformedInputErrors == {"Invalid transaction hash", "Invalid proof format"}
FetchErrors == {"network error", "Block not found", "Transaction receipt not found"}

\* a well-formed 32-byte hash literal: 64 hex digits, "0x" before them or not
HashLiterals == {<<h>> : h \in HexBlocks} \cup {<<"0x", h>> : h \in HexBlocks}

\* some token of the comma-separated text is not a hash literal
HasBadToken(text) ==
    \E k \in 1..Len(SplitComma(text)) : Trim(SplitComma(text)[k]) \notin HashLiterals

\* some token of the comma-separated text is empty
HasEmptyToken(text) ==
    \E k \in 1..Len(SplitComma(text)) : Trim(SplitComma(text)[k]) = <<>>

\* main has not gone past the parsing of the proof
NotPastParser ==
    pc \in {"resolve_rpc", "new_verifier", "parse_tx_hash", "parse_proof", "exit"}

NothingFetchedOrVerified ==
    /\ block_fetches = 0
    /\ receipt_fetches = 0
    /\ verify_calls = 0
    /\ is_valid = "unset"

\* C6 as stated: with a token that is not a hash literal in the proof text, no
\* fetch is issued, verify_merkle_proof is not invoked, and the run ends with
\* a malformed-input error.
C6_BadTokenEndsMalformed ==
    HasBadToken(args.proof) =>
        /\ NotPastParser
        /\ NothingFetchedOrVerified
        /\ pc = "exit" => error \in MalformedInputErrors

\* C6 as amended: with a token that is not a hash literal in the proof text, no
\* fetch is issued, verify_merkle_proof is not invoked, and the run ends with
\* an error: the configuration error when no well-formed RPC URL is given by
\* --rpc-url or ETH_RPC_URL, a malformed-input error otherwise.
C6_BadTokenEndsBeforeFetch ==
    HasBadToken(args.proof) =>
        /\ NotPastParser
        /\ NothingFetchedOrVerified
        /\ pc = "exit" =>
              /\ exit_code = 1
              /\ IF ResolveRpcUrl(args.rpc_url, env_rpc_url) = "ok"
                 THEN error \in MalformedInputErrors
                 ELSE error \in ConfigErrors

\* C6 witness: a proof text holding the token "z" was refused by the parser.
C6_Witness ==
    /\ pc = "exit"
    /\ error = "Invalid proof format"
    /\ \E k \in 1..Len(args.proof) : args.proof[k] = "z"
    /\ block_fetches = 0

\* C7: a proof text with an empty token (the empty text, a trailing comma)
\* never yields a proof: the parser refuses it, and verify_merkle_proof is
\* never reached with a proof made from it.
C7_EmptyTokenRefused ==
    HasEmptyToken(args.proof) =>
        /\ ~ParseProof(args.proof).ok
        /\ NotPastParser
        /\ proof = <<>>
        /\ verify_calls = 0
        /\ pc = "exit" => error # "none"
        /\ (pc = "exit" /\ tx_hash # <<>>) => error = "Invalid proof format"

\* C7 witness: the parser refused an empty proof text.
C7_Witness ==
    /\ pc = "exit"
    /\ args.proof = <<>>
    /\ error = "Invalid proof format"

\* C8: a fetch answered by an error or by NotFound ends the run at once, with
\* an error and no verification result: no fetch is issued twice, after a
\* failed block fetch the receipt is not fetched, after a failed receipt
\* fetch the receipt is not hashed and verify_merkle_proof is not invoked.
C8_FetchFailureAborts ==
    /\ block_fetches <= 1
    /\ receipt_fetches <= 1
    /\ block_resp \in {"error", "none"} =>
          /\ pc = "exit"
          /\ error \in FetchErrors
          /\ exit_code = 1
          /\ receipt_fetches = 0
          /\ receipt_resp = "unset"
    /\ receipt_resp \in {"error", "none"} =>
          /\ pc = "exit"
          /\ error \in FetchErrors
          /\ exit_code = 1
    /\ (block_resp \in {"error", "none"} \/ receipt_resp \in {"error", "none"}) =>
          /\ receipt_data = <<>>
          /\ leaf = <<>>
          /\ verify_calls = 0
          /\ hash_calls = 0
          /\ is_valid = "unset"

\* C8 witness: the node reported no receipt for the transaction and the run
\* ended.
C8_Witness ==
    /\ pc = "exit"
    /\ receipt_resp = "none"
    /\ error = "Transaction receipt not found"

\* C9: the run exits with code 0 exactly when verify_merkle_proof was executed,
\* whatever it returned; every error exits with a non-zero code and without
\* a verification result.
C9_ExitCode ==
    /\ exit_code \in {-1, 0, 1}
    /\ pc = "exit" <=> exit_code # -1
    /\ pc = "exit" =>
          (exit_code = 0 <=> (verify_calls = 1 /\ is_valid \in {"true", "false"}))
    /\ exit_code = 0 <=> (pc = "exit" /\ error = "none")
    /\ error # "none" =>
          /\ exit_code = 1
          /\ verify_calls = 0
          /\ is_valid = "unset"

\* C9 witness: a run whose verification returned false exited with code 0.
C9_Witness == pc = "exit" /\ is_valid = "false" /\ exit_code = 0

====
